---- MODULE Spec2Model ----
(***************************************************************************)
(* A model of make_distribution.py: the configuration resolvers, the       *)
(* external command runner, the distribution scaffolder and the main       *)
(* pipeline of the script.                                                 *)
(***************************************************************************)
EXTENDS Integers, Sequences, FiniteSets, TLC

VARIABLES
    argv,       \* sys.argv: the command line, argv[1] being the script name
    environ,    \* os.environ restricted to the variables the script reads
    cfg,        \* the last resolver call and what it produced (fn None before any)
    rc,         \* the run_command call: its arguments, its position, its result
    child,      \* the subprocess run_command started
    pipe,       \* what the subprocess has written to its stdout/stderr pipe
    elapsed,    \* time units run_command has waited in communicate()
    console,    \* what the script has printed, in order
    world,      \* what the script finds when it starts: the state of the
                \* distribution path, the platform, pdflatex on the path
    conf,       \* the values __main__ resolved: paths, compiler, keep
    fs,         \* the directories and files the script creates or removes
    cwd,        \* the process's working directory
    oldpwd,     \* the directories saved by the cwd() context managers entered
    pc,         \* the statement of __main__ and the operation in it to run next
    status,     \* "running", "failed" (an exception ended the run) or "done"
    error,      \* the type of the exception that ended the run
    envOk,      \* every external command, tool and input so far did its part
    started,    \* for each statement of __main__, how often it was started
    completed,  \* for each statement of __main__, how often it completed
    ran,        \* the calls of run_command made, in order, and how each ended
    unit,       \* the function called on its own, with its arguments
    result      \* what that call produced

cfgVars == <<argv, environ, cfg>>
runVars == <<rc, child, pipe, elapsed>>
mainVars == <<world, conf, fs, cwd, oldpwd, pc, status, error, envOk, started,
              completed, ran>>
unitVars == <<unit, result>>
vars == <<argv, environ, cfg, rc, child, pipe, elapsed, console, world, conf,
          fs, cwd, oldpwd, pc, status, error, envOk, started, completed, ran,
          unit, result>>

(***************************************************************************)
(* Values.  Python's None is a value of its own; an exception that leaves  *)
(* a resolver is named by its type.                                        *)
(***************************************************************************)
None == "None"
IndexError == "IndexError"
Script == "make_distribution.py"

\* global variables, lines 13-17
DISTRIBUTION_PATH == "./distribution/mf6dev"
MODFLOW6_PATH == "../modflow6"
MODFLOW6_EXAMPLES_PATH == "../modflow6-examples"
FORTRAN_COMPILER == "gfortran"

Flags == {"-dp", "-mf6p", "-mf6ep", "-fc"}
EnvNames == {"MODFLOW6_DISTRIBUTION_PATH", "MODFLOW6_PATH",
             "MODFLOW6_EXAMPLES_PATH", "FC"}

(***************************************************************************)
(* Bounds of the command lines and values explored.                        *)
(***************************************************************************)
MaxArgs == 3
ArgValues == {"a", "b"}
EnvValues == {"e"}
CallerValues == {"c"}
Tokens == Flags \cup ArgValues

RECURSIVE SeqsUpTo(_, _)
SeqsUpTo(S, n) ==
    IF n = 0 THEN {<<>>}
    ELSE LET shorter == SeqsUpTo(S, n - 1)
         IN  shorter \cup {Append(s, x) : s \in shorter, x \in S}

CommandLines == {<<Script>> \o s : s \in SeqsUpTo(Tokens, MaxArgs)}

(***************************************************************************)
(* The scan every resolver makes of sys.argv:                              *)
(*     for idx, arg in enumerate(sys.argv):                                *)
(*         if arg == flag: value = sys.argv[idx + 1]                       *)
(* Every occurrence of the flag assigns, so the last one decides; a flag   *)
(* in the last position indexes past the end and raises IndexError.        *)
(***************************************************************************)
RECURSIVE ScanFrom(_, _, _, _)
ScanFrom(args, flag, idx, value) ==
    IF idx > Len(args) THEN value
    ELSE IF args[idx] = flag
         THEN IF idx + 1 > Len(args) THEN IndexError
              ELSE ScanFrom(args, flag, idx + 1, args[idx + 1])
         ELSE ScanFrom(args, flag, idx + 1, value)

ScanArgv(args, flag, value) == ScanFrom(args, flag, 1, value)

(***************************************************************************)
(* The three path resolvers.  Each returns [raised, ret]: the exception    *)
(* that left it (None when it returned) and the value returned.            *)
(***************************************************************************)
Returned(v) == [raised |-> None, ret |-> v]
Raised(e) == [raised |-> e, ret |-> None]

\* A resolver in which the command-line flag is consulted after the
\* environment, so that the flag wins.
PathFlagOverEnv(arg, default, flag, envName, args, env) ==
    LET v0 == IF arg = None THEN default ELSE arg
        v1 == IF env[envName] # None THEN env[envName] ELSE v0
        v2 == ScanArgv(args, flag, v1)
    IN  IF v2 = IndexError THEN Raised(IndexError) ELSE Returned(v2)

ResolvePath(arg, default, flag, envName, args, env) ==
    LET v0 == IF arg = None THEN default ELSE arg
        v1 == ScanArgv(args, flag, v0)
        env_var == env[envName]
    IN  IF v1 = IndexError THEN Raised(IndexError)
        ELSE IF env_var # None THEN Returned(env_var)
        ELSE Returned(v1)

get_distribution_path(distribution_path, args, env) ==
    ResolvePath(distribution_path, DISTRIBUTION_PATH, "-dp",
                "MODFLOW6_DISTRIBUTION_PATH", args, env)

get_modflow6_path(modflow6_path, args, env) ==
    ResolvePath(modflow6_path, MODFLOW6_PATH, "-mf6p",
                "MODFLOW6_PATH", args, env)

get_modflow6_examples_path(modflow6_examples_path, args, env) ==
    ResolvePath(modflow6_examples_path, MODFLOW6_EXAMPLES_PATH, "-mf6ep",
                "MODFLOW6_EXAMPLES_PATH", args, env)

(***************************************************************************)
(* get_compiler.  It returns [raised, ret, env, wrote]: env is os.environ  *)
(* when it is left and wrote says whether os.environ["FC"] was assigned.   *)
(***************************************************************************)
\* get_compiler with the environment consulted first, as the path
\* resolvers do: FC, when set, overrides the flag and the caller's value.
CompilerEnvFirst(fortran_compiler, args, env) ==
    LET fc1 == ScanArgv(args, "-fc", fortran_compiler)
        from_env == env["FC"] # None
        fc2 == IF from_env THEN env["FC"] ELSE fc1
        fc3 == IF fc2 = None THEN FORTRAN_COMPILER ELSE fc2
    IN  IF fc1 = IndexError
        THEN [raised |-> IndexError, ret |-> None, env |-> env, wrote |-> FALSE]
        ELSE [raised |-> None, ret |-> fc3,
              env |-> IF from_env THEN env ELSE [env EXCEPT !["FC"] = fc3],
              wrote |-> ~from_env]

\* get_compiler without the assignment of os.environ["FC"].
CompilerNoExport(fortran_compiler, args, env) ==
    LET fc1 == ScanArgv(args, "-fc", fortran_compiler)
        fc2 == IF fc1 = None THEN env["FC"] ELSE fc1
        fc3 == IF fc2 = None THEN FORTRAN_COMPILER ELSE fc2
    IN  IF fc1 = IndexError
        THEN [raised |-> IndexError, ret |-> None, env |-> env, wrote |-> FALSE]
        ELSE [raised |-> None, ret |-> fc3, env |-> env, wrote |-> FALSE]

get_compiler(fortran_compiler, args, env) ==
    LET fc1 == ScanArgv(args, "-fc", fortran_compiler)
        from_env == fc1 = None /\ env["FC"] # None
        fc2 == IF fc1 = None THEN env["FC"] ELSE fc1
        set_environmental_var == ~from_env
        fc3 == IF fc2 = None THEN FORTRAN_COMPILER ELSE fc2
    IN  IF fc1 = IndexError
        THEN [raised |-> IndexError, ret |-> None, env |-> env, wrote |-> FALSE]
        ELSE [raised |-> None, ret |-> fc3,
              env |-> IF set_environmental_var
                      THEN [env EXCEPT !["FC"] = fc3] ELSE env,
              wrote |-> set_environmental_var]

(***************************************************************************)
(* The resolvers as operations of the process: a call reads sys.argv and   *)
(* os.environ and records what it was given and what it produced.          *)
(***************************************************************************)
NoCall(env) ==
    [fn |-> None, arg |-> None, envBefore |-> env, envAfter |-> env,
     raised |-> None, ret |-> None, wrote |-> FALSE]

CallRecord(fn, arg, r, envAfter, wrote) ==
    [fn |-> fn, arg |-> arg, envBefore |-> environ, envAfter |-> envAfter,
     raised |-> r.raised, ret |-> r.ret, wrote |-> wrote]

CallGetDistributionPath ==
    \E arg \in CallerValues \cup {None} :
        LET r == get_distribution_path(arg, argv, environ)
        IN  /\ cfg' = CallRecord("get_distribution_path", arg, r, environ, FALSE)
            /\ UNCHANGED <<argv, environ, runVars, console, mainVars, unitVars>>

CallGetModflow6Path ==
    \E arg \in CallerValues \cup {None} :
        LET r == get_modflow6_path(arg, argv, environ)
        IN  /\ cfg' = CallRecord("get_modflow6_path", arg, r, environ, FALSE)
            /\ UNCHANGED <<argv, environ, runVars, console, mainVars, unitVars>>

CallGetModflow6ExamplesPath ==
    \E arg \in CallerValues \cup {None} :
        LET r == get_modflow6_examples_path(arg, argv, environ)
        IN  /\ cfg' = CallRecord("get_modflow6_examples_path", arg, r, environ, FALSE)
            /\ UNCHANGED <<argv, environ, runVars, console, mainVars, unitVars>>

CallGetCompiler ==
    \E arg \in CallerValues \cup {None} :
        LET r == get_compiler(arg, argv, environ)
        IN  /\ cfg' = CallRecord("get_compiler", arg, r, r.env, r.wrote)
            /\ environ' = r.env
            /\ UNCHANGED <<argv, runVars, console, mainVars, unitVars>>

(***************************************************************************)
(* run_command(argv, pth, timeout, verbose, terminate_on_failure).         *)
(*                                                                         *)
(* The subprocess writes chunks to the pipe that carries its stdout and    *)
(* stderr merged; a chunk is text or bytes that are not UTF-8.  An         *)
(* exception is [type, argv, code, output]: its type and what its message  *)
(* carries of the command line, the return code and the captured output.   *)
(***************************************************************************)
MaxOutput == 2
MaxTimeout == 2
Chunks == {"text", "bytes"}
ExitCodes == {0, 1, 100, 101}
Commands == {"meson", "mf6"}

\* An optional value that is not a string: Nothing for Python's None, Just(x)
\* for the value x.
Nothing == <<>>
Just(x) == <<x>>
Val(m) == m[1]

Timeouts == {Nothing} \cup {Just(t) : t \in 1..MaxTimeout}

Exc(type) ==
    [type |-> type, argv |-> None, code |-> Nothing, output |-> Nothing]
NoExc == Exc(None)

Decodable(output) == \A i \in 1..Len(output) : output[i] = "text"

\* process.communicate() hands back (stdout, stderr); stderr is merged into
\* stdout (stderr=subprocess.STDOUT), so the second component is None.
Communicate(written) == [output |-> Just(written), unused_err |-> Nothing]

\* x.decode("utf-8") for the two things the handlers decode
DecodeError(x) ==
    IF x = Nothing THEN "AttributeError"
    ELSE IF ~Decodable(Val(x)) THEN "UnicodeDecodeError"
    ELSE None

\* buff = output.decode("utf-8") + unused_err.decode("utf-8"): the left
\* operand is evaluated first
DecodeBoth(c) ==
    IF DecodeError(c.output) # None THEN DecodeError(c.output)
    ELSE DecodeError(c.unused_err)

\* lines 189-199: raise on a non-zero status under terminate_on_failure,
\* printing the command and the output first when verbose; else return
Escalate(cmd, buff, ierr, verbose, terminate_on_failure) ==
    IF terminate_on_failure /\ ierr # 0
    THEN [phase |-> "raised", buff |-> Just(buff), ierr |-> Just(ierr),
          exc |-> [type |-> "Exception", argv |-> cmd, code |-> Just(ierr),
                   output |-> Nothing],
          printed |-> IF verbose
                      THEN << <<"Failed to execute system command", cmd>>,
                              <<"output", buff>> >>
                      ELSE <<>>]
    ELSE [phase |-> "returned", buff |-> Just(buff), ierr |-> Just(ierr),
          exc |-> NoExc,
          printed |-> <<>>]

Propagate(type) ==
    [phase |-> "raised", buff |-> Nothing, ierr |-> Nothing, exc |-> Exc(type),
     printed |-> <<>>]

\* lines 185-188, the bare except: communicate() again, decode both
\* results, status 101; then lines 189-199
OtherHandler(cmd, written, verbose, terminate_on_failure) ==
    LET c == Communicate(written)
    IN  IF DecodeBoth(c) # None THEN Propagate(DecodeBoth(c))
        ELSE Escalate(cmd, Val(c.output), 101, verbose, terminate_on_failure)

\* lines 177-179, the body of the try once the subprocess has exited, and
\* what follows it
TryBody(cmd, written, returncode, verbose, terminate_on_failure) ==
    LET c == Communicate(written)
    IN  IF DecodeError(c.output) # None
        THEN OtherHandler(cmd, written, verbose, terminate_on_failure)
        ELSE Escalate(cmd, Val(c.output), returncode, verbose, terminate_on_failure)

\* lines 180-184, the handler of TimeoutExpired after process.kill():
\* communicate() again, decode both results, status 100; then lines 189-199
TimeoutHandler(cmd, written, verbose, terminate_on_failure) ==
    LET c == Communicate(written)
    IN  IF DecodeBoth(c) # None THEN Propagate(DecodeBoth(c))
        ELSE Escalate(cmd, Val(c.output), 100, verbose, terminate_on_failure)

Idle ==
    [phase |-> "idle", cmd |-> None, timeout |-> Nothing, verbose |-> FALSE,
     terminate_on_failure |-> FALSE, launched |-> FALSE, timed_out |-> FALSE,
     buff |-> Nothing, ierr |-> Nothing, exc |-> NoExc]

NoChild == [state |-> "none", returncode |-> Nothing]

Finish(r) ==
    /\ rc' = [rc EXCEPT !.phase = r.phase, !.buff = r.buff, !.ierr = r.ierr,
                        !.exc = r.exc]
    /\ console' = console \o r.printed

\* lines 165-175: the announcement when verbose, then subprocess.Popen,
\* which raises (outside the try) when the program cannot be started
RunCommandStart ==
    /\ rc.phase = "idle"
    /\ \E cmd \in Commands, timeout \in Timeouts, verbose \in BOOLEAN,
          terminate_on_failure \in BOOLEAN, found \in BOOLEAN :
        LET call == [Idle EXCEPT !.cmd = cmd, !.timeout = timeout,
                                 !.verbose = verbose,
                                 !.terminate_on_failure = terminate_on_failure,
                                 !.launched = found]
            announced == IF verbose
                         THEN console \o << <<"Running system command", cmd>> >>
                         ELSE console
        IN  IF found
            THEN /\ rc' = [call EXCEPT !.phase = "communicate"]
                 /\ child' = [state |-> "running", returncode |-> Nothing]
                 /\ console' = announced
            ELSE /\ rc' = [call EXCEPT !.phase = "raised",
                                       !.exc = Exc("FileNotFoundError")]
                 /\ child' = child
                 /\ console' = announced
    /\ UNCHANGED <<pipe, elapsed, cfgVars, mainVars, unitVars>>

\* the subprocess writes a chunk of output
ChildWrite ==
    /\ child.state = "running"
    /\ Len(pipe) < MaxOutput
    /\ \E chunk \in Chunks : pipe' = Append(pipe, chunk)
    /\ UNCHANGED <<rc, child, elapsed, console, cfgVars, mainVars, unitVars>>

\* the subprocess exits with a status of its own
ChildExit ==
    /\ child.state = "running"
    /\ \E code \in ExitCodes :
        child' = [state |-> "exited", returncode |-> Just(code)]
    /\ UNCHANGED <<rc, pipe, elapsed, console, cfgVars, mainVars, unitVars>>

\* time passes while communicate(timeout) waits for the subprocess
Tick ==
    /\ rc.phase = "communicate"
    /\ child.state = "running"
    /\ rc.timeout # Nothing
    /\ elapsed < Val(rc.timeout)
    /\ elapsed' = elapsed + 1
    /\ UNCHANGED <<rc, child, pipe, console, cfgVars, mainVars, unitVars>>

\* lines 177-179 and 189-199: communicate() returns once the subprocess
\* has exited
CommunicateReturns ==
    /\ rc.phase = "communicate"
    /\ child.state = "exited"
    /\ Finish(TryBody(rc.cmd, pipe, Val(child.returncode), rc.verbose,
                      rc.terminate_on_failure))
    /\ UNCHANGED <<child, pipe, elapsed, cfgVars, mainVars, unitVars>>

\* lines 180-184 and 189-199: communicate(timeout) raises TimeoutExpired,
\* the handler kills the subprocess
CommunicateTimesOut ==
    /\ rc.phase = "communicate"
    /\ child.state = "running"
    /\ rc.timeout # Nothing
    /\ elapsed >= Val(rc.timeout)
    /\ child' = [state |-> "killed", returncode |-> Just(-9)]
    /\ LET r == TimeoutHandler(rc.cmd, pipe, rc.verbose, rc.terminate_on_failure)
       IN  /\ rc' = [rc EXCEPT !.phase = r.phase, !.buff = r.buff,
                               !.ierr = r.ierr, !.exc = r.exc,
                               !.timed_out = TRUE]
           /\ console' = console \o r.printed
    /\ UNCHANGED <<pipe, elapsed, cfgVars, mainVars, unitVars>>

(***************************************************************************)
(* The file system.  A path is the sequence of its components.  The three  *)
(* resolved paths are roots of their own: D the distribution path, M the   *)
(* MODFLOW 6 repository, E the examples repository; W is the directory the *)
(* process starts in, and a path that begins with "." is relative to the   *)
(* working directory.  fs holds what the script itself creates or removes; *)
(* what it only reads of M and E is the environment's to decide.           *)
(***************************************************************************)
D == <<"D">>
M == <<"M">>
E == <<"E">>
W == <<"W">>
Zip == <<"D.zip">>

Join(path, name) == path \o name
AbsPath(path, dir) == IF path[1] = "." THEN dir \o Tail(path) ELSE path
Under(path, root) ==
    Len(path) >= Len(root) /\ SubSeq(path, 1, Len(root)) = root
Prefixes(path) == {SubSeq(path, 1, k) : k \in 1..Len(path)}
BaseName(path) == <<path[Len(path)]>>

IsDir(f, path) == path \in f.dirs
IsFile(f, path) == path \in f.files
Exists(f, path) == IsDir(f, path) \/ IsFile(f, path)

AddDirs(f, paths) == [f EXCEPT !.dirs = @ \cup paths]
AddFiles(f, paths) == [f EXCEPT !.files = @ \cup paths]
\* files written by a tool, which makes the directories they are in
Produce(f, paths) ==
    [dirs |-> f.dirs \cup UNION {Prefixes(SubSeq(q, 1, Len(q) - 1)) : q \in paths},
     files |-> f.files \cup paths]
\* shutil.rmtree
RmTree(f, path) ==
    [dirs |-> {q \in f.dirs : ~Under(q, path)},
     files |-> {q \in f.files : ~Under(q, path)}]

(***************************************************************************)
(* The operations a function body is made of.  Each is a tuple whose first *)
(* component names it.                                                     *)
(***************************************************************************)
Say(msg) == <<"print", msg>>
\* run_command(cmd, pth, verbose=, terminate_on_failure=); produces: the
\* files the command is run for; warn: the caller prints a warning on a
\* non-zero status
RunCommand(cmd, pth, verbose, terminate_on_failure, produces, warn) ==
    <<"run_command", cmd, pth, verbose, terminate_on_failure, produces, warn>>
\* if os.path.isdir(path): raise Exception(errmsg)
RaiseIfIsDir(path) == <<"raise_if_isdir", path>>
\* os.makedirs(path), os.mkdir(path)
MakeDirs(path) == <<"makedirs", path>>
\* shutil.copytree(src, dst, dirs_exist_ok=)
CopyTree(src, dst, dirs_exist_ok) == <<"copytree", src, dst, dirs_exist_ok>>
\* shutil.copy(src, dst)
Copy(src, dst) == <<"copy", src, dst>>
\* if os.path.isfile(src): shutil.copy(src, dst)
CopyIfIsFile(src, dst) == <<"copy_if_isfile", src, dst>>
\* if not os.path.exists(dst): shutil.copy(src, dst)
CopyIfAbsent(src, dst) == <<"copy_if_absent", src, dst>>
\* if os.path.isdir(path): shutil.rmtree(path)
RmTreeIfIsDir(path) == <<"rmtree_if_isdir", path>>
\* with cwd(path): ... and the end of its block
WithCwd(path) == <<"with_cwd", path>>
EndWith == <<"end_with">>
\* a call into a library (pymake, flopy) or a step on files of M or E
External(name, produces) == <<"external", name, produces>>
\* a step on files of M or E that tolerates failure (delete_files)
Tolerant(name) == <<"tolerant", name>>
\* assert os.path.isfile(path), os.path.isdir(path), os.path.exists(path)
AssertIsFile(path) == <<"assert_isfile", path>>
AssertIsDir(path) == <<"assert_isdir", path>>
AssertExists(path) == <<"assert_exists", path>>
\* an assert on files of M or E
AssertInput(name) == <<"assert_input", name>>
\* with open(path, "w") as f: f.write(...)
WriteFile(path) == <<"write", path>>
\* a call of a name that is defined nowhere
Undefined(name) == <<"undefined", name>>
\* field = fn(), a statement of __main__
Resolve(field, fn) == <<"resolve", field, fn>>
\* zipdir(dirname, zipname)
ZipDir(dirname, zipname) == <<"zipdir", dirname, zipname>>
\* the run scripts of build_example_run_scripts_linux / _win
RunScripts(examples, script, runall) == <<"run_scripts", examples, script, runall>>
\* return
Return == <<"return">>

(***************************************************************************)
(* What an operation does to the state of the process st = [fs, console,   *)
(* cwd, oldpwd, environ, conf]: the set of its outcomes [st, raised, ok],  *)
(* raised being the exception it raises (None: it completes) and ok        *)
(* whether the environment did its part.                                   *)
(***************************************************************************)
Completes(st) == [st |-> st, raised |-> None, ok |-> TRUE]
Raises(st, type) == [st |-> st, raised |-> type, ok |-> TRUE]
\* the exception is the environment's doing: a missing input, a failed tool
Fails(st, type) == [st |-> st, raised |-> type, ok |-> FALSE]

Printing(st, items) == [st EXCEPT !.console = @ \o items]

PipeOutputs == {<<>>, <<"text">>, <<"bytes">>}

\* get_keep, lines 124-134: the parameter unless -k or --keep is given
get_keep(keep, args) ==
    IF \E i \in 1..Len(args) : args[i] \in {"-k", "--keep"} THEN "True" ELSE keep

\* get_is_approved, lines 202-206
get_is_approved(is_approved, args) ==
    IF \E i \in 1..Len(args) : args[i] = "--isApproved" THEN "True"
    ELSE is_approved

\* what run_command does for a subprocess that cannot be started, or that
\* exits with a status after writing some output; no caller in the script
\* passes a timeout
RunResults(cmd, verbose, terminate_on_failure) ==
    {Propagate("FileNotFoundError")} \cup
    {TryBody(cmd, written, code, verbose, terminate_on_failure) :
        written \in PipeOutputs, code \in ExitCodes}

\* a directory with nothing in it
IsEmptyDir(f, path) ==
    /\ IsDir(f, path)
    /\ \A q \in f.dirs \cup f.files : Under(q, path) => q = path

\* how a call of run_command ended: the command was not started, exited
\* with status zero or non-zero, or its output could not be taken
Ended(r) ==
    IF r.phase = "returned"
    THEN (IF r.ierr = Just(0) THEN "zero" ELSE "nonzero")
    ELSE IF r.exc.type = "Exception" THEN "nonzero"
    ELSE IF r.exc.type = "FileNotFoundError" THEN "not started"
    ELSE "error"

\* the record of a call of run_command: the command, whether the directory
\* it was run in was empty, how it ended and whether run_command returned
Ran(cmd, empty, r) ==
    [cmd |-> cmd, empty |-> empty, ended |-> Ended(r),
     returned |-> r.phase = "returned"]

ExecRunCommand(o, st) ==
    LET cmd == o[2]
        verbose == o[4]
        produces == o[6]
        warn == o[7]
        empty == IsEmptyDir(st.fs, AbsPath(o[3], st.cwd))
        called == IF verbose
                  THEN Printing(st, << <<"Running system command", cmd>> >>)
                  ELSE st
    IN  { [st |-> LET announced == [called EXCEPT !.ran = Append(@, Ran(cmd, empty, r))]
                      printed == Printing(announced, r.printed)
                      warned == IF warn /\ r.phase = "returned" /\ r.ierr # Just(0)
                                THEN Printing(printed, << <<"Warning", cmd>> >>)
                                ELSE printed
                  IN  IF r.phase = "returned" /\ r.ierr = Just(0) /\ made
                      THEN [warned EXCEPT !.fs =
                               Produce(@, {AbsPath(q, st.cwd) : q \in produces})]
                      ELSE warned,
           raised |-> IF r.phase = "raised" THEN r.exc.type ELSE None,
           ok |-> r.phase = "returned" /\ r.ierr = Just(0) /\ made] :
          r \in RunResults(cmd, verbose, o[5]),
          made \in IF produces = {} THEN {TRUE} ELSE BOOLEAN }

ExecResolve(o, st) ==
    LET fn == o[3]
        r == CASE fn = "get_modflow6_path" ->
                    get_modflow6_path(None, argv, st.environ)
               [] fn = "get_modflow6_examples_path" ->
                    get_modflow6_examples_path(None, argv, st.environ)
               [] fn = "get_distribution_path" ->
                    get_distribution_path(None, argv, st.environ)
               [] fn = "get_compiler" ->
                    [x \in {"raised", "ret"} |->
                        get_compiler(None, argv, st.environ)[x]]
               [] fn = "get_keep" -> Returned(get_keep(None, argv))
        env == IF fn = "get_compiler"
               THEN get_compiler(None, argv, st.environ).env ELSE st.environ
        printed == IF fn = "get_compiler" /\ get_compiler(None, argv, st.environ).wrote
                   THEN Printing(st, << <<"setting environmental variable FC", r.ret>> >>)
                   ELSE st
    IN  IF r.raised # None THEN {Raises(st, r.raised)}
        ELSE {Completes([printed EXCEPT !.environ = env, !.conf[o[2]] = r.ret])}

\* the file names that contain ".DS_Store" (".DS_Store" not in file, line
\* 972, looks for it anywhere in the name)
DSStoreNames == {".DS_Store", "._.DS_Store"}
ContainsDSStore(file) == file \in DSStoreNames

\* every file of the directory tree
ArchivedAll(f, dirname) == {q \in f.files : Under(q, dirname)}

\* the files of a directory tree that go into the archive, lines 970-975
Archived(f, dirname) ==
    {q \in f.files : Under(q, dirname) /\ ~ContainsDSStore(q[Len(q)])}

\* zipf.write(fname, arcname=fname), line 975: the name of the entry is the
\* name the file was walked by, which the archive normalises ("." components
\* and a leading separator are dropped)
ArcName(fname) == SelectSeq(fname, LAMBDA c : c \notin {".", "/"})

\* the simulation folders directly below pth only
TopLevelSimulationFolders(f, pth) ==
    {q \in f.dirs : Len(q) = Len(pth) + 1 /\ Under(q, pth)
                    /\ Exists(f, Join(q, <<"mfsim.nam">>))}

\* the folders below pth that hold mfsim.nam, lines 797-802
SimulationFolders(f, pth) ==
    {q \in f.dirs : Under(q, pth) /\ q # pth /\ Exists(f, Join(q, <<"mfsim.nam">>))}

Exec(o, st) ==
    LET kind == o[1]
        f == st.fs
    IN  CASE kind = "print" -> {Completes(Printing(st, <<o[2]>>))}
          [] kind = "return" -> {Completes(st)}
          [] kind = "run_command" -> ExecRunCommand(o, st)
          [] kind = "resolve" -> ExecResolve(o, st)
          [] kind = "undefined" -> {Raises(st, "NameError")}
          [] kind = "raise_if_isdir" ->
                IF IsDir(f, o[2]) THEN {Raises(st, "Exception")}
                ELSE {Completes(st)}
          [] kind = "makedirs" ->
                LET path == AbsPath(o[2], st.cwd)
                IN  IF Exists(f, path) THEN {Raises(st, "FileExistsError")}
                    ELSE {Completes([st EXCEPT !.fs = AddDirs(@, Prefixes(path))])}
          [] kind = "copytree" ->
                {Fails(st, "FileNotFoundError")} \cup
                ( IF Exists(f, o[3]) /\ ~(o[4] /\ IsDir(f, o[3]))
                  THEN {Raises(st, "FileExistsError")}
                  ELSE {Completes([st EXCEPT !.fs =
                            AddFiles(AddDirs(@, Prefixes(o[3])),
                                     {Join(o[3], <<"*">>)})])} )
          [] kind \in {"copy", "copy_if_isfile", "copy_if_absent"} ->
                LET dst == IF IsDir(f, o[3]) THEN Join(o[3], BaseName(o[2]))
                           ELSE o[3]
                    parent == SubSeq(dst, 1, Len(dst) - 1)
                    copied == IF IsDir(f, parent)
                              THEN Completes([st EXCEPT !.fs = AddFiles(@, {dst})])
                              ELSE Raises(st, "FileNotFoundError")
                IN  IF kind = "copy" THEN {Fails(st, "FileNotFoundError"), copied}
                    ELSE IF kind = "copy_if_isfile" THEN {Completes(st), copied}
                    ELSE IF Exists(f, o[3]) THEN {Completes(st)}
                    ELSE {copied}
          [] kind = "rmtree_if_isdir" ->
                LET path == AbsPath(o[2], st.cwd)
                IN  IF IsDir(f, path)
                    THEN {Completes([st EXCEPT !.fs = RmTree(@, path)])}
                    ELSE {Completes(st)}
          [] kind = "with_cwd" ->
                \* oldpwd = os.getcwd(); os.chdir(path)
                IF o[2][1] \in {"D", "W", "."} /\ ~IsDir(f, AbsPath(o[2], st.cwd))
                THEN {Raises(st, "FileNotFoundError")}
                ELSE {Completes([st EXCEPT !.oldpwd = <<st.cwd>> \o @,
                                           !.cwd = AbsPath(o[2], st.cwd)])}
                     \cup (IF o[2][1] \in {"D", "W", "."} THEN {}
                           ELSE {Fails(st, "FileNotFoundError")})
          [] kind = "end_with" ->
                \* finally: os.chdir(oldpwd)
                {Completes([st EXCEPT !.cwd = st.oldpwd[1],
                                      !.oldpwd = Tail(st.oldpwd)])}
          [] kind = "external" ->
                {Fails(st, "Exception")} \cup
                { [st |-> [st EXCEPT !.fs =
                              Produce(@, {AbsPath(q, st.cwd) : q \in made})],
                   raised |-> None, ok |-> made = o[3]] : made \in SUBSET o[3] }
          [] kind = "tolerant" -> {Completes(st)}
          [] kind = "assert_isfile" ->
                IF IsFile(f, AbsPath(o[2], st.cwd)) THEN {Completes(st)}
                ELSE {Raises(st, "AssertionError")}
          [] kind = "assert_isdir" ->
                IF IsDir(f, AbsPath(o[2], st.cwd)) THEN {Completes(st)}
                ELSE {Raises(st, "AssertionError")}
          [] kind = "assert_exists" ->
                IF Exists(f, AbsPath(o[2], st.cwd)) THEN {Completes(st)}
                ELSE {Raises(st, "AssertionError")}
          [] kind = "assert_input" ->
                {Completes(st), Fails(st, "AssertionError")}
          [] kind = "write" ->
                LET path == AbsPath(o[2], st.cwd)
                IN  IF path[1] \in {"D", "W"}
                    THEN IF IsDir(f, SubSeq(path, 1, Len(path) - 1))
                         THEN {Completes([st EXCEPT !.fs = AddFiles(@, {path})])}
                         ELSE {Raises(st, "FileNotFoundError")}
                    ELSE {Completes(st), Fails(st, "FileNotFoundError")}
          [] kind = "zipdir" ->
                {Completes([st EXCEPT !.fs = AddFiles(@, {o[3]})])}
          [] kind = "run_scripts" ->
                LET folders == SimulationFolders(f, o[2])
                IN  {Completes([st EXCEPT !.fs =
                        AddFiles(@, {Join(q, o[3]) : q \in folders}
                                    \cup {Join(o[2], o[4])})])}

\* an exception that leaves the working directory where it is
UnwindKeeping(st) == [st EXCEPT !.oldpwd = <<>>]

\* an exception leaves the blocks of cwd() through their finally clauses,
\* the outermost last; nothing else is undone
Unwind(st) ==
    IF st.oldpwd = <<>> THEN st
    ELSE [st EXCEPT !.cwd = st.oldpwd[Len(st.oldpwd)], !.oldpwd = <<>>]

(***************************************************************************)
(* The functions of the script __main__ calls, each as the sequence of     *)
(* operations its body runs.                                               *)
(***************************************************************************)
RECURSIVE Flatten(_)
Flatten(seqs) == IF seqs = <<>> THEN <<>> ELSE Head(seqs) \o Flatten(Tail(seqs))

ForEach(items, Body(_)) == Flatten([i \in 1..Len(items) |-> Body(items[i])])

\* get_platform, lines 137-146: "linux" is looked for first, then
\* "darwin", then "win"
get_platform ==
    CASE world.sys_platform = "linux" -> "linux"
      [] world.sys_platform = "darwin" -> "macos"
      [] world.sys_platform \in {"win32", "cygwin"} -> "windows"
      [] OTHER -> "unknown"

\* pdflatex taken to be there
LatexAssumed == TRUE

\* latex_is_available, lines 715-719
latex_is_available == world.pdflatex

\* lines 209-237
set_modflow6_release_info(modflow6_path) ==
    LET isApproved == get_is_approved(None, argv)
        cmd == <<"python", "update_version.py">>
               \o (IF isApproved # None THEN <<"--isApproved">> ELSE <<>>)
    IN  << Say(<<"Setting the release information for", modflow6_path>>),
           RunCommand(cmd, Join(modflow6_path, <<"distribution">>), TRUE, TRUE,
                      {}, FALSE) >>

\* meson_build_binaries installing into the distribution directory
MesonIntoDistribution(modflow6_dir) ==
    << Say(<<"cleaning existing meson build directory...",
             Join(modflow6_dir, <<"builddir">>)>>),
       RmTreeIfIsDir(Join(modflow6_dir, <<"builddir">>)),
       RunCommand(<<"meson", "setup", "builddir", <<"--prefix=", D>>,
                    "--libdir=bin">>, modflow6_dir, TRUE, TRUE, {}, FALSE),
       RunCommand(<<"meson", "install", "-C", "builddir">>, modflow6_dir, TRUE,
                  TRUE, {Join(D, <<"bin", "mf6">>)}, FALSE) >>

\* lines 240-270
meson_build_binaries(modflow6_dir) ==
    LET build_path == Join(modflow6_dir, <<"builddir">>)
    IN  << Say(<<"cleaning existing meson build directory...", build_path>>),
           RmTreeIfIsDir(build_path),
           RunCommand(<<"meson", "setup", "builddir",
                        <<"--prefix=", modflow6_dir>>, "--libdir=bin">>,
                      modflow6_dir, TRUE, TRUE, {}, FALSE),
           RunCommand(<<"meson", "install", "-C", "builddir">>,
                      modflow6_dir, TRUE, TRUE,
                      {Join(modflow6_dir, <<"bin", "mf6">>)}, FALSE) >>

\* initialize_new_distribution with the existence check made after the
\* source trees are copied
InitializeThenCheck(modflow6_path, distribution_path) ==
    << Say(<<"Creating new distribution path", distribution_path>>),
       CopyTree(Join(modflow6_path, <<"src">>),
                Join(distribution_path, <<"src">>), TRUE),
       RaiseIfIsDir(distribution_path),
       MakeDirs(distribution_path) >>

\* lines 273-315
initialize_new_distribution(modflow6_path, distribution_path) ==
    << Say(<<"Creating new distribution path", distribution_path>>),
       RaiseIfIsDir(distribution_path),
       MakeDirs(distribution_path),
       Say(<<"Copying src and srcbmi...">>),
       CopyTree(Join(modflow6_path, <<"src">>),
                Join(distribution_path, <<"src">>), TRUE),
       CopyTree(Join(modflow6_path, <<"srcbmi">>),
                Join(distribution_path, <<"srcbmi">>), TRUE) >>
    \o LET subdirs == <<"bin", "doc", "examples", "make", "msvs", "utils">>
           Make(sd) == << Say(<<"Creating directory",
                                  Join(distribution_path, <<sd>>)>>),
                          MakeDirs(Join(distribution_path, <<sd>>)) >>
       IN  ForEach(subdirs, Make)

\* lines 318-333
copy_visual_studio_files(modflow6_path, distribution_path) ==
    LET flist == <<"mf6.sln", "mf6.vfproj", "mf6core.vfproj", "mf6bmi.sln",
                   "mf6bmi.vfproj">>
        destination_path == Join(distribution_path, <<"msvs">>)
        CopyOne(fname) ==
            << Say(<<"copying", fname, destination_path>>),
               Copy(Join(modflow6_path, <<"msvs", fname>>), destination_path) >>
    IN  <<Say(<<"Copying msvs files">>)>> \o ForEach(flist, CopyOne)
        \o <<Say(<<"newline">>)>>

\* lines 336-355
build_makefile(distribution_path, target, extrafiles) ==
    LET makedir == Join(distribution_path, <<"make">>)
    IN  << Say(<<"Creating makefile in", distribution_path>>),
           WithCwd(makedir),
           External(<<"pymake.main", target, extrafiles>>,
                    {<<".", "makefile">>, <<".", "makedefaults">>}),
           AssertIsFile(<<".", "makefile">>),
           AssertIsFile(<<".", "makedefaults">>),
           EndWith >>

\* lines 358-404
build_utility(modflow6_path, distribution_path, utility_name, target_name) ==
    LET utility_path == Join(distribution_path, <<"utils", utility_name>>)
        source == Join(modflow6_path, <<"utils", utility_name>>)
    IN  << Say(<<"Creating files in", utility_path>>),
           MakeDirs(utility_path),
           MakeDirs(Join(utility_path, <<"make">>)),
           MakeDirs(Join(utility_path, <<"msvs">>)),
           Say(<<"Copying", Join(source, <<"src">>)>>),
           CopyTree(Join(source, <<"src">>), Join(utility_path, <<"src">>), FALSE),
           Say(<<"Copying", Join(source, <<"msvs">>)>>),
           Copy(Join(source, <<"msvs", "vfproj">>), Join(utility_path, <<"msvs">>)),
           CopyIfIsFile(Join(source, <<"pymake", "extrafiles.txt">>),
                        Join(utility_path, <<"make">>)) >>
        \o build_makefile(utility_path, target_name, "extrafiles.txt")

\* lines 407-422
download_published_reports(distribution_path) ==
    LET reports == <<"tm6a57.pdf", "tm6a55.pdf", "tm6a56.pdf", "tm6a61.pdf",
                     "tm6a62.pdf">>
        Download(report) ==
            << Say(<<"downloading", report>>),
               External(<<"pymake.download_and_unzip", report>>,
                        {Join(distribution_path, <<"doc", report>>)}) >>
    IN  <<Say(<<"Downloading published reports.">>)>>
        \o ForEach(reports, Download) \o <<Say(<<"newline">>)>>

\* the six documents of lines 425-467 and 648-655: where the document is,
\* its name, and the file it is built to
Documents ==
    << <<Join(M, <<"doc", "mf6io">>), "mf6io", "mf6io.pdf">>,
       <<Join(M, <<"doc", "ReleaseNotes">>), "ReleaseNotes", "ReleaseNotes.pdf">>,
       <<Join(M, <<"doc", "zonebudget">>), "zonebudget", "zonebudget.pdf">>,
       <<Join(M, <<"doc", "ConverterGuide">>), "converter_mf5to6",
         "converter_mf5to6.pdf">>,
       <<Join(M, <<"doc", "SuppTechInfo">>), "mf6suptechinfo",
         "mf6suptechinfo.pdf">>,
       <<Join(E, <<"doc">>), "mf6examples", "mf6examples.pdf">> >>

\* lines 425-467
clean_latex_files(modflow6_path) ==
    LET Clean(doc) == <<Tolerant(<<"delete_files", doc[2]>>)>>
    IN  <<Say(<<"Cleaning latex files">>)>> \o ForEach(Documents, Clean)

\* lines 470-519
rebuild_tex_from_dfn(modflow6_path) ==
    << Say(<<"Rebuilding the tex files from dfn by running mf6ivar.py">>),
       WithCwd(Join(modflow6_path, <<"doc", "mf6io", "mf6ivar">>)),
       External(<<"os.remove", "tex">>, {}),
       RunCommand(<<"python", "mf6ivar.py">>, <<".">>, TRUE, TRUE, {}, FALSE),
       AssertInput(<<"TeX file(s) are missing">>),
       EndWith >>

\* lines 522-546
create_simple_testmodel(temp_path, bin_path) ==
    << Say(<<"Creating a simple test model in", temp_path>>),
       External(<<"flopy.mf6.MFSimulation.write_simulation">>,
                {Join(temp_path, <<"mfsim.nam">>)}) >>

\* lines 549-613
update_mf6io_tex_files(modflow6_path, mf6bin_path, expth) ==
    LET texpth == Join(modflow6_path, <<"doc", "mf6io">>)
    IN  << AssertIsFile(mf6bin_path),
           AssertIsDir(expth),
           Say(<<"Running simple test model with", mf6bin_path>>),
           RunCommand(<<mf6bin_path>>, expth, FALSE, TRUE, {}, FALSE),
           WriteFile(Join(texpth, <<"mf6output.tex">>)),
           Say(<<"Running mf6 without namefile present.">>),
           RmTreeIfIsDir(<<".", "temp">>),
           MakeDirs(<<".", "temp">>),
           RunCommand(<<mf6bin_path>>, <<".", "temp">>, FALSE, FALSE, {}, FALSE),
           WriteFile(Join(texpth, <<"mf6noname.tex">>)),
           Say(<<"Running mf6 with -h option to give help commands.">>),
           RunCommand(<<mf6bin_path, "-h">>, <<".", "temp">>, FALSE, TRUE, {},
                      FALSE),
           WriteFile(Join(texpth, <<"mf6switches.tex">>)) >>

\* update_latex_releaseinfo going on when mk_folder_struct.py fails
ReleaseInfoTolerant(modflow6_path, distribution_path) ==
    << Tolerant(<<"delete_files", "folder_struct.tex">>),
       RunCommand(<<"python", "mk_folder_struct.py", "-dp", distribution_path>>,
                  Join(modflow6_path, <<"doc", "ReleaseNotes">>), TRUE, FALSE,
                  {}, FALSE) >>

\* lines 616-638
update_latex_releaseinfo(modflow6_path, distribution_path) ==
    LET pth == Join(modflow6_path, <<"doc", "ReleaseNotes">>)
    IN  << Tolerant(<<"delete_files", "folder_struct.tex">>),
           RunCommand(<<"python", "mk_folder_struct.py", "-dp", distribution_path>>,
                      pth, TRUE, TRUE, {Join(pth, <<"folder_struct.tex">>)},
                      FALSE),
           AssertIsFile(Join(pth, <<"folder_struct.tex">>)) >>

\* lines 641-712
build_latex_docs(modflow6_path, modflow6_examples_path, distribution_path) ==
    LET pdflatexcmd(t) ==
            <<"pdflatex", "-interaction=nonstopmode", "-halt-on-error", t, ".tex">>
        Pdf(doc) == <<".", doc[3]>>
        Build(doc) ==
            << Say(<<"Building latex document", doc[2]>>),
               WithCwd(doc[1]),
               Say(<<"Pass 1/4...">>),
               RunCommand(pdflatexcmd(doc[2]), <<".">>, TRUE, TRUE,
                          {Pdf(doc)}, FALSE),
               Say(<<"Pass 2/4...">>),
               RunCommand(<<"bibtex", doc[2], ".aux">>, <<".">>, TRUE, FALSE, {},
                          TRUE),
               Say(<<"Pass 3/4...">>),
               RunCommand(pdflatexcmd(doc[2]), <<".">>, TRUE, TRUE,
                          {Pdf(doc)}, FALSE),
               Say(<<"Pass 4/4...">>),
               RunCommand(pdflatexcmd(doc[2]), <<".">>, TRUE, TRUE,
                          {Pdf(doc)}, FALSE),
               AssertIsFile(Pdf(doc)),
               EndWith >>
        CopyPdf(doc) ==
            << Say(<<"Copying latex document", doc[2]>>),
               Copy(Join(doc[1], <<doc[3]>>),
                    Join(distribution_path, <<"doc">>)) >>
    IN  <<Say(<<"Building latex files">>)>> \o ForEach(Documents, Build)
        \o ForEach(Documents, CopyPdf)

\* lines 722-756
build_latex(modflow6_path, modflow6_examples_path, distribution_path) ==
    IF latex_is_available
    THEN LET temp_path == <<".", "temp">>
             mf6 == IF get_platform = "windows" THEN "mf6.exe" ELSE "mf6"
             mf6bin_path == Join(distribution_path, <<"bin", mf6>>)
         IN  clean_latex_files(modflow6_path)
             \o rebuild_tex_from_dfn(modflow6_path)
             \o create_simple_testmodel(temp_path, mf6bin_path)
             \o update_mf6io_tex_files(modflow6_path, mf6bin_path, temp_path)
             \o update_latex_releaseinfo(modflow6_path, distribution_path)
             \o build_latex_docs(modflow6_path, modflow6_examples_path,
                                 distribution_path)
    ELSE <<Say(<<"Warning. Latex is not available so latex documents were not built.">>)>>

\* os.listdir of the scripts folder of the examples repository: each name
\* as <<prefix, stem, extension>>
Scripts ==
    << <<"ex-", "gwf-capture", ".py">>, <<"ex-", "gwf-csub", ".py">>,
       <<"ex-", "gwt-mt3dms", ".py">>, <<"", "process-scripts", ".py">> >>

IsExampleScript(fname) == fname[3] = ".py" /\ fname[1] = "ex-"

\* lines 759-792
build_examples(modflow6_examples_path, distribution_path) ==
    LET examples_destination == Join(distribution_path, <<"examples">>)
        scripts_folder == Join(modflow6_examples_path, <<"scripts">>)
        exclude_list == {<<"ex-", "gwf-capture", ".py">>}
        scripts == SelectSeq(Scripts,
                       LAMBDA fname : IsExampleScript(fname)
                                      /\ fname \notin exclude_list)
        Build(script) ==
            << RunCommand(<<"python", script, "--no_run", "--no_plot", "--no_gif",
                            "--destination", examples_destination>>,
                          scripts_folder, TRUE, TRUE,
                          {Join(examples_destination, <<script[2], "mfsim.nam">>)},
                          FALSE) >>
    IN  << Say(<<"Building examples">>),
           AssertInput(<<"os.path.isdir", modflow6_examples_path>>),
           AssertIsDir(examples_destination),
           External(<<"os.listdir", scripts_folder>>, {}) >>
        \o ForEach(scripts, Build)

\* lines 807-848
build_example_run_scripts_win(distribution_path) ==
    IF "windows" # get_platform THEN <<Return>>
    ELSE << Say(<<"Building example run scripts">>),
            RunScripts(Join(distribution_path, <<"examples">>), <<"run.bat">>,
                       <<"runall.bat">>) >>

\* lines 851-899
build_example_run_scripts_linux(distribution_path) ==
    IF get_platform = "windows" THEN <<Return>>
    ELSE << Say(<<"Building example run scripts">>),
            RunScripts(Join(distribution_path, <<"examples">>), <<"run.sh">>,
                       <<"runall.sh">>) >>

\* lines 902-948
build_and_run_examples(modflow6_examples_path, distribution_path, keep) ==
    IF latex_is_available
    THEN LET script_path == Join(modflow6_examples_path, <<"scripts">>)
             scripts == SelectSeq(Scripts, IsExampleScript)
             Run(s) ==
                 <<RunCommand(<<"python", s, "--no_gif">>, script_path, TRUE,
                              TRUE, {}, FALSE)>>
                 \o (IF keep = None
                     THEN <<External(<<"clean_example_dir", s>>, {})>>
                     ELSE <<>>)
         IN  << Say(<<"Building and running examples so that mf6examples.pdf can be built with LaTex.">>),
                Say(<<"Running modflow6examples.">>),
                External(<<"os.listdir", script_path>>, {}) >>
             \o ForEach(scripts, Run)
             \o << Say(<<"Running the process-scripts.py command.">>),
                   RunCommand(<<"python", "process-scripts.py">>, script_path,
                              TRUE, TRUE, {}, FALSE) >>
    ELSE <<Say(<<"Skipping building and running of examples because latex is not available.">>)>>

\* paths_for_filename("meson.build", modflow6_path), lines 30-39
MesonFiles == << <<"src", "meson.build">>, <<"meson.build">> >>

\* lines 956-964
copy_meson_files(modflow6_path, distribution_path) ==
    LET CopyOne(meson_file) ==
            <<CopyIfAbsent(Join(modflow6_path, meson_file),
                           Join(distribution_path, meson_file))>>
    IN  <<External(<<"os.walk", modflow6_path>>, {})>> \o ForEach(MesonFiles, CopyOne)

\* lines 967-978
zipdir(dirname, zipname) ==
    << Say(<<"Zipping directory", dirname>>),
       ZipDir(dirname, zipname),
       Say(<<"newline">>) >>

(***************************************************************************)
(* __main__, lines 981-1056: its statements in order, and what each runs.  *)
(***************************************************************************)
Main ==
    << "get_modflow6_path", "get_modflow6_examples_path",
       "get_distribution_path", "get_compiler", "get_keep",
       "set_modflow6_release_info", "initialize_new_distribution",
       "copy_visual_studio_files", "build_makefile", "meson_build_binaries",
       "copy_binaries", "build_utility zonebudget", "build_utility mf5to6",
       "copy_meson_files", "build_examples", "build_example_run_scripts_win",
       "build_example_run_scripts_linux", "build_and_run_examples",
       "build_latex", "download_published_reports", "zipdir", "assert zipfile",
       "print done" >>

Body(stmt) ==
    CASE stmt = "get_modflow6_path" ->
            <<Resolve("modflow6_path", "get_modflow6_path")>>
      [] stmt = "get_modflow6_examples_path" ->
            <<Resolve("modflow6_examples_path", "get_modflow6_examples_path")>>
      [] stmt = "get_distribution_path" ->
            <<Resolve("distribution_path", "get_distribution_path")>>
      [] stmt = "get_compiler" -> <<Resolve("fortran_compiler", "get_compiler")>>
      [] stmt = "get_keep" -> <<Resolve("keep", "get_keep")>>
      [] stmt = "set_modflow6_release_info" -> set_modflow6_release_info(M)
      [] stmt = "initialize_new_distribution" -> initialize_new_distribution(M, D)
      [] stmt = "copy_visual_studio_files" -> copy_visual_studio_files(M, D)
      [] stmt = "build_makefile" -> build_makefile(D, "mf6", None)
      [] stmt = "meson_build_binaries" -> meson_build_binaries(M)
      [] stmt = "copy_binaries" -> <<Undefined("copy_binaries")>>
      [] stmt = "build_utility zonebudget" ->
            build_utility(M, D, "zonebudget", "zbud6")
      [] stmt = "build_utility mf5to6" -> build_utility(M, D, "mf5to6", "mf5to6")
      [] stmt = "copy_meson_files" -> copy_meson_files(M, D)
      [] stmt = "build_examples" -> build_examples(E, D)
      [] stmt = "build_example_run_scripts_win" -> build_example_run_scripts_win(D)
      [] stmt = "build_example_run_scripts_linux" ->
            build_example_run_scripts_linux(D)
      [] stmt = "build_and_run_examples" -> build_and_run_examples(E, D, conf.keep)
      [] stmt = "build_latex" -> build_latex(M, E, D)
      [] stmt = "download_published_reports" -> download_published_reports(D)
      [] stmt = "zipdir" -> zipdir(D, Zip)
      [] stmt = "assert zipfile" -> <<AssertExists(Zip)>>
      [] stmt = "print done" ->
            <<Say(<<"Done creating distribution", conf.distribution_path, ".zip">>)>>

\* an uncaught exception ends the run, leaving the distribution as it is
UnwindRemoving(st) ==
    [Unwind(st) EXCEPT !.fs = RmTree(@, D)]

OnRaise(st) == Unwind(st)

\* the next operation of the statement at pc runs: it completes, and the
\* run moves on, or it raises, and the run ends
Step ==
    /\ status = "running"
    /\ LET body == Body(Main[pc.stmt])
           st == [fs |-> fs, console |-> console, cwd |-> cwd,
                  oldpwd |-> oldpwd, environ |-> environ, conf |-> conf,
                  ran |-> ran]
       IN  \E out \in Exec(body[pc.op], st) :
             LET after == IF out.raised # None THEN OnRaise(out.st) ELSE out.st
                 last == pc.op = Len(body)
             IN  /\ fs' = after.fs
                 /\ console' = after.console
                 /\ cwd' = after.cwd
                 /\ oldpwd' = after.oldpwd
                 /\ environ' = after.environ
                 /\ conf' = after.conf
                 /\ ran' = after.ran
                 /\ envOk' = (envOk /\ out.ok)
                 /\ error' = out.raised
                 /\ started' = IF pc.op = 1
                               THEN [started EXCEPT ![pc.stmt] = @ + 1]
                               ELSE started
                 /\ completed' = IF out.raised = None /\ last
                                 THEN [completed EXCEPT ![pc.stmt] = @ + 1]
                                 ELSE completed
                 /\ status' = IF out.raised # None THEN "failed"
                              ELSE IF last /\ pc.stmt = Len(Main) THEN "done"
                              ELSE "running"
                 /\ pc' = IF out.raised # None \/ (last /\ pc.stmt = Len(Main))
                          THEN pc
                          ELSE IF last THEN [stmt |-> pc.stmt + 1, op |-> 1]
                          ELSE [pc EXCEPT !.op = @ + 1]
    /\ UNCHANGED <<argv, cfg, world, runVars, unitVars>>

(***************************************************************************)
(* The specifications.                                                     *)
(***************************************************************************)
\* no statement of __main__ has run
NotStarted ==
    /\ conf = [modflow6_path |-> None, modflow6_examples_path |-> None,
               distribution_path |-> None, fortran_compiler |-> None,
               keep |-> None]
    /\ cwd = W
    /\ oldpwd = <<>>
    /\ pc = [stmt |-> 1, op |-> 1]
    /\ status = "running"
    /\ error = None
    /\ envOk = TRUE
    /\ started = [i \in 1..Len(Main) |-> 0]
    /\ completed = [i \in 1..Len(Main) |-> 0]
    /\ ran = <<>>

\* no function is called on its own
NoUnit ==
    /\ unit = Nothing
    /\ result = Nothing

\* what is at the distribution path when the script starts, and whether a
\* build directory is left from an earlier build
InitialFs(w) ==
    [dirs |-> {W} \cup (IF w.dist = "dir" THEN {D} ELSE {})
                  \cup (IF w.builddir THEN {Join(M, <<"builddir">>)} ELSE {}),
     files |-> IF w.dist = "file" THEN {D} ELSE {}]

Worlds ==
    [dist : {"absent", "dir", "file"}, sys_platform : {"linux", "win32"},
     pdflatex : BOOLEAN, builddir : BOOLEAN]

AnyWorld == [dist |-> "absent", sys_platform |-> "linux", pdflatex |-> FALSE,
             builddir |-> FALSE]

InitConfig ==
    /\ argv \in CommandLines
    /\ environ \in [EnvNames -> EnvValues \cup {None}]
    /\ cfg = NoCall(environ)
    /\ rc = Idle
    /\ child = NoChild
    /\ pipe = <<>>
    /\ elapsed = 0
    /\ console = <<>>
    /\ world = AnyWorld
    /\ fs = InitialFs(world)
    /\ NotStarted
    /\ NoUnit

NextConfig ==
    \/ CallGetDistributionPath
    \/ CallGetModflow6Path
    \/ CallGetModflow6ExamplesPath
    \/ CallGetCompiler

SpecConfig == InitConfig /\ [][NextConfig]_vars

InitRun ==
    /\ argv = <<Script>>
    /\ environ = [n \in EnvNames |-> None]
    /\ cfg = NoCall(environ)
    /\ rc = Idle
    /\ child = NoChild
    /\ pipe = <<>>
    /\ elapsed = 0
    /\ console = <<>>
    /\ world = AnyWorld
    /\ fs = InitialFs(world)
    /\ NotStarted
    /\ NoUnit

NextRun ==
    \/ RunCommandStart
    \/ ChildWrite
    \/ ChildExit
    \/ Tick
    \/ CommunicateReturns
    \/ CommunicateTimesOut

SpecRun == InitRun /\ [][NextRun]_vars

\* the command lines and environments the script is started with
MainCommandLines ==
    { <<Script>>,
      <<Script, "-dp", "a", "--isApproved">>,
      <<Script, "-fc", "b", "-k">>,
      <<Script, "-mf6p">> }

MainEnvironments ==
    { [n \in EnvNames |-> None],
      [n \in EnvNames |-> IF n \in {"FC", "MODFLOW6_DISTRIBUTION_PATH"}
                          THEN "e" ELSE None] }

Init ==
    /\ argv \in MainCommandLines
    /\ environ \in MainEnvironments
    /\ cfg = NoCall(environ)
    /\ rc = Idle
    /\ child = NoChild
    /\ pipe = <<>>
    /\ elapsed = 0
    /\ console = <<>>
    /\ world \in Worlds
    /\ fs = InitialFs(world)
    /\ NotStarted
    /\ NoUnit

Next == Step

Spec == Init /\ [][Next]_vars

(***************************************************************************)
(* A statement of __main__ run on its own (SpecCall), as a function of the *)
(* script called from another program with the paths __main__ resolves by  *)
(* default.                                                                *)
(***************************************************************************)
\* the distribution directory as initialize_new_distribution leaves it,
\* with the binaries in place
Scaffold ==
    Produce([dirs |-> {W, D} \cup {Join(D, <<sd>>) :
                         sd \in {"bin", "doc", "examples", "make", "msvs", "utils"}},
             files |-> {}],
            {Join(D, <<"bin", "mf6">>), Join(D, <<"bin", "mf6.exe">>)})

\* the statements that call a function with the resolved paths
Callable == {i \in 1..Len(Main) : i > 5 /\ Main[i] \notin {"assert zipfile", "print done"}}

InitCall ==
    /\ argv = <<Script>>
    /\ environ = [n \in EnvNames |-> IF n = "FC" THEN FORTRAN_COMPILER ELSE None]
    /\ cfg = NoCall(environ)
    /\ rc = Idle
    /\ child = NoChild
    /\ pipe = <<>>
    /\ elapsed = 0
    /\ console = <<>>
    /\ world \in [dist : {"absent", "dir"}, sys_platform : {"linux", "win32"},
                  pdflatex : BOOLEAN, builddir : {FALSE}]
    /\ fs = IF world.dist = "dir" THEN Scaffold ELSE InitialFs(world)
    /\ conf = [modflow6_path |-> MODFLOW6_PATH,
               modflow6_examples_path |-> MODFLOW6_EXAMPLES_PATH,
               distribution_path |-> DISTRIBUTION_PATH,
               fortran_compiler |-> FORTRAN_COMPILER, keep |-> None]
    /\ cwd = W
    /\ oldpwd = <<>>
    /\ \E i \in Callable : pc = [stmt |-> i, op |-> 1]
    /\ status = "running"
    /\ error = None
    /\ envOk = TRUE
    /\ started = [i \in 1..Len(Main) |-> 0]
    /\ completed = [i \in 1..Len(Main) |-> 0]
    /\ ran = <<>>
    /\ NoUnit

\* the next operation of the function called runs: it completes, and the
\* function goes on or returns, or it raises, and the call ends
CallStep ==
    /\ status = "running"
    /\ LET body == Body(Main[pc.stmt])
           st == [fs |-> fs, console |-> console, cwd |-> cwd,
                  oldpwd |-> oldpwd, environ |-> environ, conf |-> conf,
                  ran |-> ran]
       IN  \E out \in Exec(body[pc.op], st) :
             LET after == IF out.raised # None THEN OnRaise(out.st) ELSE out.st
                 last == pc.op = Len(body)
             IN  /\ fs' = after.fs
                 /\ console' = after.console
                 /\ cwd' = after.cwd
                 /\ oldpwd' = after.oldpwd
                 /\ environ' = after.environ
                 /\ conf' = after.conf
                 /\ ran' = after.ran
                 /\ envOk' = (envOk /\ out.ok)
                 /\ error' = out.raised
                 /\ started' = IF pc.op = 1
                               THEN [started EXCEPT ![pc.stmt] = @ + 1]
                               ELSE started
                 /\ completed' = IF out.raised = None /\ last
                                 THEN [completed EXCEPT ![pc.stmt] = @ + 1]
                                 ELSE completed
                 /\ status' = IF out.raised # None THEN "failed"
                              ELSE IF last THEN "done"
                              ELSE "running"
                 /\ pc' = IF out.raised # None \/ last THEN pc
                          ELSE [pc EXCEPT !.op = @ + 1]
    /\ UNCHANGED <<argv, cfg, world, runVars, unitVars>>

NextCall == CallStep

SpecCall == InitCall /\ [][NextCall]_vars

(***************************************************************************)
(* Functions of the script called on their own (SpecUnit), as in           *)
(*   python -c "import make_distribution; make_distribution.zipdir(...)"   *)
(***************************************************************************)
\* nothing of the command runner or of __main__ is in progress
OnlyUnit ==
    /\ argv = <<Script>>
    /\ environ = [n \in EnvNames |-> None]
    /\ cfg = NoCall(environ)
    /\ rc = Idle
    /\ child = NoChild
    /\ pipe = <<>>
    /\ elapsed = 0
    /\ console = <<>>
    /\ NotStarted

\* zipdir(dirname, zipname): the directories it is called with, and the
\* files there may be below one, by their paths relative to it
ZipDirnames ==
    {<<".">>, <<"mf6dev">>, <<".", "distribution", "mf6dev">>,
     <<"/", "tmp", "mf6dev">>}
ZipFiles ==
    {<<"bin", "mf6">>, <<".DS_Store">>, <<"doc", "._.DS_Store">>,
     <<"doc", "mf6io.pdf">>, <<"examples", "ex-gwf-csub", "mfsim.nam">>}

InitZipdir ==
    /\ OnlyUnit
    /\ world = AnyWorld
    /\ result = Nothing
    /\ \E dirname \in ZipDirnames, below \in SUBSET ZipFiles :
          /\ unit = [fn |-> "zipdir", dirname |-> dirname,
                     zipname |-> <<"mf6dev.zip">>]
          /\ fs = Produce([dirs |-> {dirname}, files |-> {<<"..", "README.md">>}],
                          {Join(dirname, q) : q \in below})

\* zipdir, lines 967-978
CallZipdir ==
    /\ unit.fn = "zipdir"
    /\ result = Nothing
    /\ LET added == Archived(fs, unit.dirname)
       IN  /\ console' = console
                  \o << <<"Zipping directory", unit.dirname>>,
                        <<"Adding to zip", added>>, <<"newline">> >>
           /\ result' = Just({ArcName(fname) : fname \in added})
    /\ fs' = AddFiles(fs, {unit.zipname})
    /\ UNCHANGED <<cfgVars, runVars, world, conf, cwd, oldpwd, pc, status, error,
                   envOk, started, completed, ran, unit>>

\* the sorted order of names, from the smallest; no name is the beginning
\* of another, so that paths sort as their strings do
NameOrder ==
    <<"ex-gwf-csub", "ex-gwt-mt3dms", "figures", "mf6gwf", "mf6gwt">>
Rank(name) == CHOOSE i \in 1..Len(NameOrder) : NameOrder[i] = name

\* path < other, as strings compare
PathLess(path, other) ==
    \/ Len(path) < Len(other) /\ SubSeq(other, 1, Len(path)) = path
    \/ \E k \in 1..Len(path) :
          /\ k <= Len(other)
          /\ SubSeq(path, 1, k - 1) = SubSeq(other, 1, k - 1)
          /\ path[k] # other[k]
          /\ Rank(path[k]) < Rank(other[k])

\* sorted(paths)
RECURSIVE Sorted(_)
Sorted(paths) ==
    IF paths = {} THEN <<>>
    ELSE LET first == CHOOSE x \in paths :
                          \A y \in paths \ {x} : PathLess(x, y)
         IN  <<first>> \o Sorted(paths \ {first})

\* get_list_simulation_folders, lines 795-804
get_list_simulation_folders(f, pth) == Sorted(SimulationFolders(f, pth))

\* os.path.relpath(path, start=start)
RelPath(path, start) ==
    LET shared == CHOOSE k \in 0..Len(start) :
                      /\ k <= Len(path)
                      /\ SubSeq(path, 1, k) = SubSeq(start, 1, k)
                      /\ (k < Len(start) /\ k < Len(path)) => path[k + 1] # start[k + 1]
        up == [i \in 1..(Len(start) - shared) |-> ".."]
        down == SubSeq(path, shared + 1, Len(path))
    IN  IF up \o down = <<>> THEN <<".">> ELSE up \o down

\* a line of a script: a change of directory, the run of a program, or text
CdLine(path) == <<"cd", path>>
RunLine(path) == <<"run", path>>
TextLine(text) == <<"text", <<text>>>>

\* the script written into a simulation folder, lines 826-831 and 870-874
RunScript(windows, mf6path, dwpath) ==
    IF windows
    THEN << TextLine("@echo off"), RunLine(RelPath(mf6path, dwpath)),
            TextLine("echo."),
            TextLine("echo Run complete.  Press any key to continue"),
            TextLine("pause>nul") >>
    ELSE << TextLine("#!/bin/bash"), RunLine(RelPath(mf6path, dwpath)),
            TextLine("echo .") >>

\* the script that runs all examples, lines 834-846 and 881-894
RunAllScript(windows, mf6path, examples_destination, simulation_folders) ==
    LET Visit(dwpath) ==
            << CdLine(RelPath(dwpath, examples_destination)),
               RunLine(RelPath(mf6path, dwpath)),
               CdLine(RelPath(examples_destination, dwpath)),
               TextLine("") >>
    IN  IF windows
        THEN ForEach(simulation_folders, Visit) \o <<TextLine("pause")>>
        ELSE <<TextLine("#!/bin/bash")>> \o ForEach(simulation_folders, Visit)

\* the directories there may be below the examples folder, and whether
\* each holds mfsim.nam
ExampleDirs ==
    {<<"ex-gwf-csub">>, <<"ex-gwt-mt3dms">>, <<"ex-gwt-mt3dms", "mf6gwf">>,
     <<"ex-gwt-mt3dms", "mf6gwt">>, <<"figures">>}

RunScriptFunctions ==
    {"build_example_run_scripts_win", "build_example_run_scripts_linux"}

InitRunScripts ==
    /\ OnlyUnit
    /\ result = Nothing
    /\ \E platform \in {"linux", "darwin", "win32"} :
          world = [AnyWorld EXCEPT !.sys_platform = platform]
    /\ \E fn \in RunScriptFunctions :
          unit = [fn |-> fn, distribution_path |-> D]
    /\ \/ fs = [dirs |-> {D}, files |-> {}]
       \/ \E present \in SUBSET ExampleDirs, marked \in SUBSET ExampleDirs :
             /\ marked \subseteq present
             /\ \A q \in present : Prefixes(q) \subseteq present
             /\ fs = Produce([dirs |-> {D, Join(D, <<"examples">>)}
                                      \cup {Join(D, <<"examples">> \o q) :
                                               q \in present},
                              files |-> {}],
                             {Join(D, <<"examples">> \o q \o <<"mfsim.nam">>) :
                                 q \in marked})

\* build_example_run_scripts_win, lines 807-848, and
\* build_example_run_scripts_linux, lines 851-899
CallBuildRunScripts ==
    /\ unit.fn \in RunScriptFunctions
    /\ result = Nothing
    /\ LET windows == unit.fn = "build_example_run_scripts_win"
           examples_destination == Join(unit.distribution_path, <<"examples">>)
           mf6path == Join(unit.distribution_path,
                           <<"bin", IF windows THEN "mf6.exe" ELSE "mf6">>)
           simulation_folders ==
               get_list_simulation_folders(fs, examples_destination)
           script == IF windows THEN <<"run.bat">> ELSE <<"run.sh">>
           runall == Join(examples_destination,
                          IF windows THEN <<"runall.bat">> ELSE <<"runall.sh">>)
           scripts == {Join(simulation_folders[i], script) :
                          i \in 1..Len(simulation_folders)}
           Adding(dwpath) == <<<<"Adding", Join(dwpath, script)>>>>
       IN  IF windows # (get_platform = "windows")
           THEN /\ result' = Just([raised |-> None, written |-> <<>>])
                /\ UNCHANGED <<console, fs>>
           ELSE /\ console' = console \o <<<<"Building example run scripts">>>>
                                      \o ForEach(simulation_folders, Adding)
                /\ IF IsDir(fs, examples_destination)
                   THEN /\ fs' = AddFiles(fs, scripts \cup {runall})
                        /\ result' = Just(
                             [raised |-> None,
                              written |->
                                 [q \in scripts \cup {runall} |->
                                     IF q = runall
                                     THEN RunAllScript(windows, mf6path,
                                              examples_destination,
                                              simulation_folders)
                                     ELSE RunScript(windows, mf6path,
                                              SubSeq(q, 1, Len(q) - 1))]])
                   ELSE /\ fs' = fs
                        /\ result' = Just([raised |-> "FileNotFoundError",
                                           written |-> <<>>])
    /\ UNCHANGED <<cfgVars, runVars, world, conf, cwd, oldpwd, pc, status, error,
                   envOk, started, completed, ran, unit>>

\* a file of the dfn folder is <<stem, extension>>, a file of the tex folder
\* <<stem, suffix, extension>>; os.path.splitext(f)[0] of the first is its
\* stem, of the second <<stem, suffix>>, and "{}-desc".format(stem) is
\* <<stem, "-desc">>
DfnFiles ==
    {<<"gwf-dis", ".dfn">>, <<"gwf-dis", ".dfn~">>, <<"gwf-npf", ".dfn">>,
     <<"common", ".dfn">>, <<"exg-common", ".dfn">>, <<"gwf-npf", ".txt">>}
TexFiles ==
    {<<"gwf-dis", "-desc", ".tex">>, <<"gwf-npf", "-desc", ".tex">>,
     <<"gwf-npf", "-desc", ".log">>, <<"gwf-dis", "-options", ".tex">>,
     <<"exg-common", "-desc", ".tex">>}

\* "dfn" in ext, "tex" in ext, "common" in f
HasDfn(ext) == ext \in {".dfn", ".dfn~"}
HasTex(ext) == ext \in {".tex"}
HasCommon(stem) == stem \in {"common", "exg-common"}

\* os.listdir: the files of a folder in some order
RECURSIVE ListDir(_)
ListDir(files) ==
    IF files = {} THEN <<>>
    ELSE LET f == CHOOSE x \in files : TRUE
         IN  <<f>> \o ListDir(files \ {f})

\* the loop of lines 506-513 over every definition file, "common" or not
RECURSIVE MissingOfAll(_, _, _)
MissingOfAll(dfnfiles, texfiles, missing) ==
    IF dfnfiles = <<>> THEN missing
    ELSE LET fpth == <<Head(dfnfiles), "-desc">>
         IN  IF fpth \notin texfiles
             THEN MissingOfAll(Tail(dfnfiles), texfiles,
                               Append(missing, <<Len(missing) + 1, fpth>>))
             ELSE MissingOfAll(Tail(dfnfiles), texfiles, missing)

\* the loop of lines 506-513: missing holds a line <<icnt, fpth>> for each
\* fragment found missing so far
RECURSIVE Missing(_, _, _)
Missing(dfnfiles, texfiles, missing) ==
    IF dfnfiles = <<>> THEN missing
    ELSE LET f == Head(dfnfiles)
             fpth == <<f, "-desc">>
         IN  IF HasCommon(f) THEN Missing(Tail(dfnfiles), texfiles, missing)
             ELSE IF fpth \notin texfiles
             THEN Missing(Tail(dfnfiles), texfiles,
                          Append(missing, <<Len(missing) + 1, fpth>>))
             ELSE Missing(Tail(dfnfiles), texfiles, missing)

InitRebuildTex ==
    /\ OnlyUnit
    /\ world = AnyWorld
    /\ fs = [dirs |-> {W}, files |-> {}]
    /\ result = Nothing
    /\ \E dfn \in SUBSET DfnFiles, tex \in SUBSET TexFiles :
          unit = [fn |-> "rebuild_tex_from_dfn", modflow6_path |-> M,
                  dfn |-> dfn, generated |-> tex]

\* rebuild_tex_from_dfn, lines 470-519: the fragments in the tex folder are
\* removed, mf6ivar.py is run and generates unit.generated, and the
\* fragments are checked against the definition files
CallRebuildTex ==
    /\ unit.fn = "rebuild_tex_from_dfn"
    /\ result = Nothing
    /\ \E r \in RunResults(<<"python", "mf6ivar.py">>, TRUE, TRUE) :
        LET announced == console
                \o << <<"Rebuilding the tex files from dfn by running mf6ivar.py">>,
                      <<"Running system command", <<"python", "mf6ivar.py">>>> >>
                \o r.printed
            dfnfiles == SelectSeq([i \in 1..Cardinality(unit.dfn) |->
                                      ListDir(unit.dfn)[i]],
                                  LAMBDA f : HasDfn(f[2]))
            texfiles == {<<t[1], t[2]>> : t \in {x \in unit.generated : HasTex(x[3])}}
            missing == Missing([i \in 1..Len(dfnfiles) |-> dfnfiles[i][1]],
                               texfiles, <<>>)
            icnt == Len(missing)
        IN  /\ console' = announced
            /\ ran' = Append(ran, Ran(<<"python", "mf6ivar.py">>, FALSE, r))
            /\ result' = Just(
                 IF r.phase = "raised"
                 THEN [raised |-> r.exc.type, checked |-> FALSE, icnt |-> 0,
                       missing |-> <<>>]
                 ELSE [raised |-> IF icnt = 0 THEN None ELSE "AssertionError",
                       checked |-> TRUE, icnt |-> icnt, missing |-> missing])
    /\ UNCHANGED <<cfgVars, runVars, world, conf, fs, cwd, oldpwd, pc, status,
                   error, envOk, started, completed, unit>>

InitUnit == InitZipdir \/ InitRunScripts \/ InitRebuildTex

NextUnit == CallZipdir \/ CallBuildRunScripts \/ CallRebuildTex

SpecUnit == InitUnit /\ [][NextUnit]_vars

(***************************************************************************)
(* What the precedence rules say a resolver returns, stated from the       *)
(* command line and the environment alone.                                 *)
(***************************************************************************)
FlagPresent(args, flag) == \E i \in 1..Len(args) : args[i] = flag

LastFlagIndex(args, flag) ==
    CHOOSE i \in 1..Len(args) :
        /\ args[i] = flag
        /\ \A j \in 1..Len(args) : args[j] = flag => j <= i

FlagIsLast(args, flag) == Len(args) >= 1 /\ args[Len(args)] = flag

ValueAfterFlag(args, flag) == args[LastFlagIndex(args, flag) + 1]

PathResolvers == {"get_distribution_path", "get_modflow6_path",
                  "get_modflow6_examples_path"}

FlagOf(fn) ==
    CASE fn = "get_distribution_path" -> "-dp"
      [] fn = "get_modflow6_path" -> "-mf6p"
      [] fn = "get_modflow6_examples_path" -> "-mf6ep"
      [] fn = "get_compiler" -> "-fc"

EnvNameOf(fn) ==
    CASE fn = "get_distribution_path" -> "MODFLOW6_DISTRIBUTION_PATH"
      [] fn = "get_modflow6_path" -> "MODFLOW6_PATH"
      [] fn = "get_modflow6_examples_path" -> "MODFLOW6_EXAMPLES_PATH"
      [] fn = "get_compiler" -> "FC"

DefaultOf(fn) ==
    CASE fn = "get_distribution_path" -> DISTRIBUTION_PATH
      [] fn = "get_modflow6_path" -> MODFLOW6_PATH
      [] fn = "get_modflow6_examples_path" -> MODFLOW6_EXAMPLES_PATH
      [] fn = "get_compiler" -> FORTRAN_COMPILER

CfgCalled(fns) == cfg.fn \in fns
CfgReturned(fns) == CfgCalled(fns) /\ cfg.raised = None

\* environment, else flag, else caller, else default
EnvFlagCallerDefault(c) ==
    IF c.envBefore[EnvNameOf(c.fn)] # None THEN c.envBefore[EnvNameOf(c.fn)]
    ELSE IF FlagPresent(argv, FlagOf(c.fn)) THEN ValueAfterFlag(argv, FlagOf(c.fn))
    ELSE IF c.arg # None THEN c.arg
    ELSE DefaultOf(c.fn)

\* flag, else caller, else environment, else default
FlagCallerEnvDefault(c) ==
    IF FlagPresent(argv, FlagOf(c.fn)) THEN ValueAfterFlag(argv, FlagOf(c.fn))
    ELSE IF c.arg # None THEN c.arg
    ELSE IF c.envBefore[EnvNameOf(c.fn)] # None THEN c.envBefore[EnvNameOf(c.fn)]
    ELSE DefaultOf(c.fn)

(***************************************************************************)
(* C3: each of the three path resolvers returns the environment value if   *)
(* it is set, else the value following (the last occurrence of) its flag,  *)
(* else the caller's value if not None, else the built-in default; the     *)
(* only way it does not return is the flag being the last word of the      *)
(* command line.                                                           *)
(***************************************************************************)
C3_PathPrecedence ==
    CfgCalled(PathResolvers) =>
        /\ cfg.raised = None => cfg.ret = EnvFlagCallerDefault(cfg)
        /\ cfg.raised # None <=> FlagIsLast(argv, FlagOf(cfg.fn))
        /\ cfg.envAfter = cfg.envBefore

\* All three layers set and in conflict, and the environment value returned.
C3_Witness ==
    /\ CfgReturned({"get_distribution_path"})
    /\ cfg.arg # None
    /\ FlagPresent(argv, "-dp")
    /\ cfg.envBefore["MODFLOW6_DISTRIBUTION_PATH"] # None
    /\ ValueAfterFlag(argv, "-dp") # cfg.envBefore["MODFLOW6_DISTRIBUTION_PATH"]
    /\ cfg.ret = cfg.envBefore["MODFLOW6_DISTRIBUTION_PATH"]

ReadFromEnv(c) ==
    /\ ~FlagPresent(argv, "-fc")
    /\ c.arg = None
    /\ c.envBefore["FC"] # None

C5_CompilerExported ==
    CfgReturned({"get_compiler"}) =>
        /\ environ["FC"] = cfg.ret
        /\ cfg.wrote <=> ~ReadFromEnv(cfg)
        /\ ~cfg.wrote => environ = cfg.envBefore
        /\ \A n \in EnvNames \ {"FC"} : environ[n] = cfg.envBefore[n]

\* FC unset, the compiler taken from the flag and exported.
C5_Witness ==
    /\ CfgReturned({"get_compiler"})
    /\ cfg.envBefore["FC"] = None
    /\ FlagPresent(argv, "-fc")
    /\ cfg.wrote
    /\ environ["FC"] = cfg.ret
    /\ cfg.ret = ValueAfterFlag(argv, "-fc")

(***************************************************************************)
(* run_command: what a finished call did.                                  *)
(***************************************************************************)
RunFinished == rc.phase \in {"returned", "raised"}

Printed(item) == \E i \in 1..Len(console) : console[i] = item

\* The status the three outcomes carry: the subprocess's own exit status,
\* 100 for a timeout, 101 for any other failure to run the command.
OutcomeStatus ==
    IF ~rc.launched THEN 101
    ELSE IF rc.timed_out THEN 100
    ELSE IF child.state = "exited" /\ Decodable(pipe) THEN Val(child.returncode)
    ELSE 101

(***************************************************************************)
(* C7: a command that does not finish within its timeout is killed and,    *)
(* terminate_on_failure not being set, run_command returns the output      *)
(* captured so far with status 100 instead of raising.                     *)
(***************************************************************************)
C7_TimeoutReturnsSentinel ==
    (rc.timed_out /\ ~rc.terminate_on_failure) =>
        /\ child.state = "killed"
        /\ rc.phase = "returned"
        /\ rc.ierr = Just(100)
        /\ rc.buff = Just(pipe)

(***************************************************************************)
(* C8: when the program cannot be started, run_command with                *)
(* terminate_on_failure not set returns status 101 with the salvaged       *)
(* output instead of letting the launch exception reach its caller.        *)
(***************************************************************************)
C8_LaunchFailureReturnsSentinel ==
    (RunFinished /\ ~rc.launched /\ ~rc.terminate_on_failure) =>
        /\ rc.phase = "returned"
        /\ rc.ierr = Just(101)

(***************************************************************************)
(* C9: for every outcome, with terminate_on_failure set and a non-zero     *)
(* status run_command raises; with terminate_on_failure not set it returns *)
(* (output, status), the status unchanged; with status 0 it returns        *)
(* (output, 0) whatever terminate_on_failure is.                           *)
(***************************************************************************)
C9_EscalationContract ==
    RunFinished =>
        /\ (rc.terminate_on_failure /\ OutcomeStatus # 0) => rc.phase = "raised"
        /\ ~rc.terminate_on_failure =>
               rc.phase = "returned" /\ rc.ierr = Just(OutcomeStatus)
        /\ OutcomeStatus = 0 =>
               rc.phase = "returned" /\ rc.ierr = Just(0) /\ rc.buff = Just(pipe)

(***************************************************************************)
(* C10: whenever run_command raises for a non-zero status under            *)
(* terminate_on_failure, the failure names the command line and the        *)
(* captured output is attached to it or printed with it, whether verbose   *)
(* or not.                                                                 *)
(***************************************************************************)
C10_OutputSurfacedOnFailure ==
    (rc.phase = "raised" /\ rc.exc.type = "Exception" /\ pipe # <<>>) =>
        /\ rc.exc.argv = rc.cmd
        /\ rc.exc.output = rc.buff \/ Printed(<<"output", Val(rc.buff)>>)

\* C11: the status run_command returns tells the outcomes apart: 100 is
\* returned only for a command that timed out and 101 only for a command
\* that could not be run, whatever status the subprocess itself exits with.
C11_SentinelsUnambiguous ==
    rc.phase = "returned" =>
        /\ rc.ierr = Just(100) => rc.timed_out
        /\ rc.ierr = Just(101) =>
              ~rc.launched \/ child.state # "exited" \/ ~Decodable(pipe)

(***************************************************************************)
(* Functions called on their own (SpecUnit).                               *)
(***************************************************************************)
Called(fn) == unit.fn = fn /\ result # Nothing

\* the path of a file relative to a directory it is under
RelTo(path, root) == SubSeq(path, Len(root) + 1, Len(path))

\* C12 as stated: the archive has one entry for every file under dirname
\* that is not named .DS_Store, and no other; the name of an entry is the
\* path of the file relative to dirname.
C12_EntriesRelativeToRoot ==
    Called("zipdir") =>
        Val(result) = {RelTo(q, unit.dirname) :
                          q \in {f \in fs.files : Under(f, unit.dirname)
                                                  /\ f[Len(f)] # ".DS_Store"}}

\* C12: the archive has one entry for every file under dirname whose name
\* does not contain ".DS_Store", and no other; the name of an entry is
\* dirname (normalised) followed by the path of the file relative to
\* dirname.
C12_EntriesNamedAsWalked ==
    Called("zipdir") =>
        LET files == {f \in fs.files : Under(f, unit.dirname)
                                       /\ f[Len(f)] \notin DSStoreNames}
        IN  /\ Val(result) = {ArcName(unit.dirname) \o RelTo(f, unit.dirname) :
                                 f \in files}
            /\ Cardinality(Val(result)) = Cardinality(files)

\* a tree with both kinds of .DS_Store file and another file has been
\* archived from a directory other than "."
C12_Witness ==
    /\ Called("zipdir")
    /\ unit.dirname = <<".", "distribution", "mf6dev">>
    /\ IsFile(fs, Join(unit.dirname, <<".DS_Store">>))
    /\ IsFile(fs, Join(unit.dirname, <<"doc", "._.DS_Store">>))
    /\ <<"distribution", "mf6dev", "bin", "mf6">> \in Val(result)

\* where a cd from a directory leads
RECURSIVE Cd(_, _)
Cd(pos, rel) ==
    IF rel = <<>> THEN pos
    ELSE IF Head(rel) = "." THEN Cd(pos, Tail(rel))
    ELSE IF Head(rel) = ".." THEN Cd(SubSeq(pos, 1, Len(pos) - 1), Tail(rel))
    ELSE Cd(Append(pos, Head(rel)), Tail(rel))

\* the directories a script is in after each of its cd lines, run from pos
RECURSIVE Positions(_, _)
Positions(script, pos) ==
    IF script = <<>> THEN <<>>
    ELSE IF Head(script)[1] = "cd"
         THEN LET next == Cd(pos, Head(script)[2])
              IN  <<next>> \o Positions(Tail(script), next)
         ELSE Positions(Tail(script), pos)

\* a run-script function was called on the platform it is for, with the
\* examples folder in place
RunScriptsWritten ==
    /\ unit.fn \in RunScriptFunctions
    /\ result # Nothing
    /\ (unit.fn = "build_example_run_scripts_win") = (get_platform = "windows")
    /\ IsDir(fs, Join(unit.distribution_path, <<"examples">>))

\* C13: run-script generation on the active platform writes one run script
\* into each folder below the examples folder that holds mfsim.nam and into
\* no other, and one script that runs them all into the examples folder;
\* that script goes into every such folder once, in the sorted order of
\* their paths, and is back in the examples folder after each.
C13_RunScripts ==
    RunScriptsWritten =>
        LET windows == unit.fn = "build_example_run_scripts_win"
            root == Join(unit.distribution_path, <<"examples">>)
            marked == {q \in fs.dirs : Under(q, root) /\ q # root
                                      /\ Exists(fs, Join(q, <<"mfsim.nam">>))}
            script == IF windows THEN "run.bat" ELSE "run.sh"
            runall == Join(root, IF windows THEN <<"runall.bat">>
                                 ELSE <<"runall.sh">>)
            written == Val(result).written
            at == Positions(written[runall], root)
        IN  /\ Val(result).raised = None
            /\ DOMAIN written = {Join(q, <<script>>) : q \in marked} \cup {runall}
            /\ DOMAIN written \subseteq fs.files
            /\ Len(at) = 2 * Cardinality(marked)
            /\ {at[2 * k - 1] : k \in 1..Cardinality(marked)} = marked
            /\ \A k \in 1..Cardinality(marked) : at[2 * k] = root
            /\ \A k \in 1..(Cardinality(marked) - 1) :
                  PathLess(at[2 * k - 1], at[2 * k + 1])

\* scripts were written for a tree in which a folder with mfsim.nam holds
\* two more, next to a folder without
C13_Witness ==
    /\ RunScriptsWritten
    /\ unit.fn = "build_example_run_scripts_linux"
    /\ Cardinality(DOMAIN Val(result).written) = 4
    /\ IsFile(fs, Join(D, <<"examples", "ex-gwt-mt3dms", "mf6gwt", "run.sh">>))
    /\ IsFile(fs, Join(D, <<"examples", "ex-gwt-mt3dms", "run.sh">>))
    /\ IsDir(fs, Join(D, <<"examples", "figures">>))

\* the definition files whose name has no "common" in it and for which no
\* fragment <name>-desc was generated
Lacking ==
    {f \in unit.dfn :
        /\ HasDfn(f[2])
        /\ ~HasCommon(f[1])
        /\ ~\E t \in unit.generated :
              t[1] = f[1] /\ t[2] = "-desc" /\ HasTex(t[3])}

\* C14: the completeness check of rebuild_tex_from_dfn fails exactly when
\* a definition file whose name has no "common" in it lacks its fragment
\* <name>-desc; the count it then reports is the number of those definition
\* files, and the fragments it lists are theirs and no others.
C14_CompletenessCheck ==
    (Called("rebuild_tex_from_dfn") /\ Val(result).checked) =>
        LET r == Val(result)
        IN  /\ (r.raised = "AssertionError") = (Lacking # {})
            /\ r.raised \in {None, "AssertionError"}
            /\ r.icnt = Cardinality(Lacking)
            /\ Len(r.missing) = r.icnt
            /\ \A i \in 1..Len(r.missing) : r.missing[i][1] = i
            /\ {r.missing[i][2] : i \in 1..Len(r.missing)}
                  = {<<f[1], "-desc">> : f \in Lacking}

\* the check failed for two definition files, next to a "common" one without
\* a fragment and a definition file with its fragment
C14_Witness ==
    /\ Called("rebuild_tex_from_dfn")
    /\ Val(result).raised = "AssertionError"
    /\ Val(result).icnt = 2
    /\ <<"common", ".dfn">> \in unit.dfn
    /\ <<"gwf-npf", ".dfn">> \in unit.dfn
    /\ <<"gwf-npf", "-desc", ".tex">> \in unit.generated
    /\ <<"gwf-dis", "-options", ".tex">> \in unit.generated

(***************************************************************************)
(* A statement of __main__ run on its own (SpecCall).                      *)
(***************************************************************************)
Calling(fns) == Main[pc.stmt] \in fns

\* what the file system was when the call began
FsAtCall == IF world.dist = "dir" THEN Scaffold ELSE InitialFs(world)

LatexGated == {"build_latex", "build_and_run_examples"}

\* C15: with no pdflatex on the path, build_latex and
\* build_and_run_examples run no command and create, change and remove no
\* file; they print a warning and return.
C15_LatexGate ==
    (~world.pdflatex /\ Calling(LatexGated)) =>
        /\ ran = <<>>
        /\ fs = FsAtCall
        /\ cwd = W
        /\ status \in {"running", "done"}
        /\ status = "running" => console = <<>>
        /\ status = "done" =>
              console \in
                {<<<<"Warning. Latex is not available so latex documents were not built.">>>>,
                 <<<<"Skipping building and running of examples because latex is not available.">>>>}

\* build_latex has returned where there is no pdflatex
C15_Witness ==
    /\ ~world.pdflatex
    /\ Calling({"build_latex"})
    /\ status = "done"
    /\ Len(console) = 1
    /\ world.dist = "dir"

\* the two places where a non-zero status is let pass: the bibtex pass of a
\* document, and mf6 run in the emptied ./temp
LetPass(e) ==
    \/ Len(e.cmd) = 3 /\ e.cmd[1] = "bibtex"
    \/ Len(e.cmd) = 1 /\ e.empty

\* C16: a command that exits with a non-zero status ends the call with an
\* Exception, except the bibtex pass of a document and the run of mf6 in
\* the empty directory: there run_command returns and the function goes on.
C16_NonZeroTolerance ==
    \A i \in 1..Len(ran) :
        ran[i].ended = "nonzero" =>
            IF LetPass(ran[i])
            THEN /\ ran[i].returned
                 /\ (status = "failed" /\ i = Len(ran)) =>
                       Body(Main[pc.stmt])[pc.op][1] # "run_command"
            ELSE /\ ~ran[i].returned
                 /\ i = Len(ran)
                 /\ status = "failed"
                 /\ error = "Exception"

\* build_latex has returned after a bibtex pass and the run of mf6 without
\* a name file both ended with a non-zero status
C16_Witness ==
    /\ Calling({"build_latex"})
    /\ status = "done"
    /\ \E i \in 1..Len(ran) :
          ran[i].ended = "nonzero" /\ Len(ran[i].cmd) = 3
    /\ \E i \in 1..Len(ran) :
          ran[i].ended = "nonzero" /\ Len(ran[i].cmd) = 1 /\ ran[i].empty

\* C18: a function that changes the working directory has it back where it
\* was when it returns and when it raises, so every statement of __main__
\* starts in the directory the process started in; the working directory
\* is elsewhere only inside a block of cwd().
C18_WorkingDirectoryRestored ==
    /\ status # "running" => (cwd = W /\ oldpwd = <<>>)
    /\ pc.op = 1 => (cwd = W /\ oldpwd = <<>>)
    /\ cwd # W => oldpwd # <<>>

\* an assert has failed inside the block of cwd() of build_makefile, and a
\* pdflatex pass inside the one of build_latex_docs
C18_Witness ==
    /\ status = "failed"
    /\ cwd = W
    /\ \/ Calling({"build_makefile"}) /\ error = "AssertionError"
       \/ /\ Calling({"build_latex"})
          /\ error = "Exception"
          /\ Body(Main[pc.stmt])[pc.op][1] = "run_command"
          /\ Body(Main[pc.stmt])[pc.op][2][1] = "pdflatex"

(***************************************************************************)
(* The run of __main__ (Spec).                                             *)
(***************************************************************************)
StmtIndex(stmt) == CHOOSE i \in 1..Len(Main) : Main[i] = stmt

\* every flag that takes a value is followed by one
WellFormed(args) == \A flag \in Flags : ~FlagIsLast(args, flag)

\* what is at or under a path
TreeAt(f, root) ==
    [dirs |-> {q \in f.dirs : Under(q, root)},
     files |-> {q \in f.files : Under(q, root)}]

Terminated == status \in {"done", "failed"}

\* the calls of run_command that set up the meson build directory
IsMesonSetup(e) == Len(e.cmd) = 5 /\ e.cmd[1] = "meson" /\ e.cmd[2] = "setup"

MesonDone == completed[StmtIndex("meson_build_binaries")] = 1

\* C17 as stated: meson is set up with the distribution path as install
\* prefix, and the install step puts the binaries under the distribution
\* path.
C17_PrefixIsDistribution ==
    /\ \A i \in 1..Len(ran) :
          IsMesonSetup(ran[i]) => ran[i].cmd[4] = <<"--prefix=", D>>
    /\ (MesonDone /\ envOk) => IsFile(fs, Join(D, <<"bin", "mf6">>))

\* C17: meson is set up with the path of the MODFLOW 6 repository as
\* install prefix, and the install step puts the binaries into the bin
\* folder of the repository; it puts nothing under the distribution path.
C17_PrefixIsRepository ==
    /\ \A i \in 1..Len(ran) :
          IsMesonSetup(ran[i]) => ran[i].cmd[4] = <<"--prefix=", M>>
    /\ (MesonDone /\ envOk) =>
          /\ IsFile(fs, Join(M, <<"bin", "mf6">>))
          /\ \A q \in fs.files : ~Under(q, Join(D, <<"bin">>))

\* meson_build_binaries has set up and installed
C17_Witness ==
    /\ MesonDone
    /\ envOk
    /\ \E i \in 1..Len(ran) : IsMesonSetup(ran[i]) /\ ran[i].ended = "zero"
    /\ IsDir(fs, Join(D, <<"bin">>))

\* C1: started with a distribution path that does not exist, every command
\* exiting 0 and every expected file produced, the run ends normally, every
\* statement of __main__ having run once, with the archive <distribution
\* path>.zip existing and the completion message that names it printed.
C1_PipelineCompletes ==
    (Terminated /\ envOk /\ world.dist = "absent" /\ WellFormed(argv)) =>
        /\ status = "done"
        /\ \A i \in 1..Len(Main) : completed[i] = 1
        /\ IsFile(fs, Zip)
        /\ Printed(<<"Done creating distribution", conf.distribution_path, ".zip">>)

\* C2: every statement of __main__ starts at most once, and only when every
\* statement before it has completed; once a statement has raised nothing
\* runs any more, and the step that raises starts no later statement (the
\* archiver among them) and removes nothing that was under the distribution
\* path.
C2_SequentialNoRetryNoCleanup ==
    [][ /\ \A i \in 1..Len(Main) :
              /\ started'[i] <= 1
              /\ completed'[i] <= started'[i]
              /\ started'[i] # started[i] =>
                    \A j \in 1..(i - 1) : completed[j] = 1
        /\ status = "failed" => UNCHANGED vars
        /\ status' = "failed" =>
              /\ \A j \in 1..Len(Main) : j > pc.stmt => started'[j] = 0
              /\ Main[pc.stmt] # "zipdir" => started'[StmtIndex("zipdir")] = 0
              /\ TreeAt(fs, D).dirs \subseteq fs'.dirs
              /\ TreeAt(fs, D).files \subseteq fs'.files ]_vars

\* a statement raised after the distribution directory was scaffolded, and
\* the directories are still there
C2_Witness ==
    /\ status = "failed"
    /\ Main[pc.stmt] = "build_makefile"
    /\ error = "Exception"
    /\ IsDir(fs, Join(D, <<"make">>))
    /\ IsFile(fs, Join(D, <<"msvs", "mf6.sln">>))
    /\ \A j \in 1..Len(Main) : started[j] = IF j <= pc.stmt THEN 1 ELSE 0

\* C6: when something is at the distribution path already,
\* initialize_new_distribution never completes: it raises, at its check or
\* at os.makedirs, having created no directory and copied no file, so that
\* what is at the distribution path is what was there before.
C6_ExistingPathFails ==
    world.dist # "absent" =>
        /\ completed[StmtIndex("initialize_new_distribution")] = 0
        /\ pc.stmt <= StmtIndex("initialize_new_distribution")
        /\ (Main[pc.stmt] = "initialize_new_distribution" /\ status # "running") =>
              /\ status = "failed"
              /\ error \in {"Exception", "FileExistsError"}
        /\ TreeAt(fs, D) = TreeAt(InitialFs(world), D)

\* initialize_new_distribution has raised on a distribution path that exists
C6_Witness ==
    /\ world.dist # "absent"
    /\ Main[pc.stmt] = "initialize_new_distribution"
    /\ status = "failed"
    /\ TreeAt(fs, D) # [dirs |-> {}, files |-> {}]

====
